---- MODULE Spec2Model ----
(***************************************************************************)
(* A model of the instrumented HTTP service of src/main.go: the startup    *)
(* sequence of main, the per-request monitoring middleware, and the route  *)
(* handlers, each translated from its code.                                *)
(*                                                                         *)
(* The web framework and the monitoring agent are external collaborators.  *)
(* Their operations appear here as operators named after the calls the     *)
(* source makes (StartSegment, SegmentEnd, AddAttribute, ...), with the    *)
(* behaviour of the carrier contract: the middleware starts one            *)
(* transaction per request and binds it to that request, a lookup returns  *)
(* what was bound or Absent, operations through Absent do nothing, and     *)
(* segments and attributes recorded through any reference to a transaction *)
(* are appended to that transaction.                                       *)
(***************************************************************************)
EXTENDS Integers, Sequences, FiniteSets, TLC

\* Requests served in one run of the process.
NReq == 2
\* Largest value of the logical clock.
MaxTime == 1
\* Largest number of header values a request carries.
MaxHdr == 1

Reqs == 1..NReq
Absent == 0

Paths == {"/txn", "/test-connection", "/version", "/notice_error",
          "/notice_error_with_attributes", "/custom_event", "/set_name",
          "/add_attribute", "/ignore", "/segments", "/external",
          "/custommetric", "/browser", "/async", "/message"}

\* What the outbound call of the external handler can deliver.
UpstreamBodies == {<<>>, <<"{\"login\":\"defunkt\"}">>}
OutboundErrors == {"Get https://api.github.com/users/defunkt: dial tcp: i/o timeout"}

VARIABLES
    mpc,        \* main: position in main()
    initErr,    \* main: err returned by newrelic.NewApplication ("" for nil)
    stdout,     \* main: lines printed by fmt.Println
    exitCode,   \* main: -1 while running, else the status given to os.Exit
    router,     \* main: [created, middleware, routes, listening]
    nextTxn,    \* agent: number of transactions started so far
    ctx,        \* agent: transaction id -> the transaction's record
    events,     \* agent: custom events recorded on the application
    metrics,    \* agent: custom metrics recorded on the application
    now,        \* the clock
    pc,         \* request -> position of the request's own task
    route,      \* request -> path requested
    attach,     \* request -> times the middleware ran for it
    ginKey,     \* request -> transaction stored under the framework key
    reqCtx,     \* request -> transaction stored in the request's context
    txn,        \* request -> the handler's local txn
    seg,        \* request -> the handler's segment handles, in call order
    body,       \* request -> chunks written to the response
    log,        \* request -> the events of the request, in order (history)
    wg,         \* request -> counter of the handler's WaitGroup
    gpc,        \* request -> position of the goroutine spawned by async
    gtxn,       \* request -> the goroutine's parameter txn
    gseg,       \* request -> the goroutine's segment handle
    resp        \* request -> outcome of the outbound call of external

mainVars == <<mpc, initErr, stdout, exitCode, router>>
agentVars == <<nextTxn, ctx, events, metrics>>
reqVars == <<pc, route, attach, ginKey, reqCtx, txn, seg, body, log>>
asyncVars == <<wg, gpc, gtxn, gseg>>
vars == <<mainVars, agentVars, now, reqVars, asyncVars, resp>>

NoAttrs == [k \in {} |-> 0]
NoHandle == [txn |-> Absent, idx |-> 0]
NoResp == [kind |-> "none", err |-> "", upstream |-> <<>>, read |-> FALSE,
           closed |-> FALSE]

NewTxn == [name |-> "", attrs |-> NoAttrs, errors |-> <<>>, segs |-> <<>>,
           ignored |-> FALSE, ended |-> FALSE, reported |-> FALSE]

----
\* The agent's operations, as the source calls them.

\* txn.SetName(n)
SetName(c, t, n) ==
    IF t = Absent THEN c ELSE [c EXCEPT ![t].name = n]

\* txn.AddAttribute(k, v): one value per key, the last one written
AddAttribute(c, t, k, v) ==
    IF t = Absent THEN c
    ELSE [c EXCEPT ![t].attrs =
            [x \in DOMAIN c[t].attrs \cup {k} |->
                IF x = k THEN v ELSE c[t].attrs[x]]]

\* txn.NoticeError(e)
NoticeError(c, t, e) ==
    IF t = Absent THEN c ELSE [c EXCEPT ![t].errors = Append(@, e)]

\* txn.Ignore()
Ignore(c, t) ==
    IF t = Absent THEN c ELSE [c EXCEPT ![t].ignored = TRUE]

\* newrelic.StartSegment(txn, name) and the other segment constructors:
\* the handle returned, and the transaction after the segment is opened.
SegHandle(c, t) ==
    IF t = Absent THEN NoHandle ELSE [txn |-> t, idx |-> Len(c[t].segs) + 1]

StartSegment(c, t, name) ==
    IF t = Absent THEN c
    ELSE [c EXCEPT ![t].segs =
            Append(@, [name |-> name, start |-> now, end |-> -1, closes |-> 0])]

\* Segment.End(): the end time is recorded by the first call.
SegmentEnd(c, h) ==
    IF h.txn = Absent THEN c
    ELSE LET s == c[h.txn].segs[h.idx]
         IN [c EXCEPT ![h.txn].segs[h.idx] =
                [s EXCEPT !.end = IF s.closes = 0 THEN now ELSE s.end,
                          !.closes = s.closes + 1]]

\* txn.End(), deferred by the middleware: the transaction is handed to the
\* reporting sink unless it was ignored.
TxnEnd(c, t) ==
    IF t = Absent THEN c
    ELSE [c EXCEPT ![t].ended = TRUE, ![t].reported = ~c[t].ignored]

----
\* main()

Routes == [p \in Paths |->
    CASE p = "/txn" -> "EndpointAccessTransaction"
      [] p = "/test-connection" -> "index"
      [] p = "/version" -> "versionHandler"
      [] p = "/notice_error" -> "noticeError"
      [] p = "/notice_error_with_attributes" -> "noticeErrorWithAttributes"
      [] p = "/custom_event" -> "customEvent"
      [] p = "/set_name" -> "setName"
      [] p = "/add_attribute" -> "addAttribute"
      [] p = "/ignore" -> "ignore"
      [] p = "/segments" -> "segments"
      [] p = "/external" -> "external"
      [] p = "/custommetric" -> "customMetric"
      [] p = "/browser" -> "browser"
      [] p = "/async" -> "async"
      [] p = "/message" -> "message"]

NoRoutes == [p \in {} |-> [mw |-> FALSE, handler |-> ""]]

NoRouter == [created |-> FALSE, middleware |-> <<>>, routes |-> NoRoutes,
             listening |-> FALSE]

Init ==
    /\ mpc = "start"
    /\ initErr = ""
    /\ stdout = <<>>
    /\ exitCode = -1
    /\ router = NoRouter
    /\ nextTxn = 0
    /\ ctx = <<>>
    /\ events = <<>>
    /\ metrics = <<>>
    /\ now = 0
    /\ pc = [r \in Reqs |-> "none"]
    /\ route = [r \in Reqs |-> ""]
    /\ attach = [r \in Reqs |-> 0]
    /\ ginKey = [r \in Reqs |-> Absent]
    /\ reqCtx = [r \in Reqs |-> Absent]
    /\ txn = [r \in Reqs |-> Absent]
    /\ seg = [r \in Reqs |-> <<>>]
    /\ body = [r \in Reqs |-> <<>>]
    /\ log = [r \in Reqs |-> <<>>]
    /\ wg = [r \in Reqs |-> 0]
    /\ gpc = [r \in Reqs |-> "none"]
    /\ gtxn = [r \in Reqs |-> Absent]
    /\ gseg = [r \in Reqs |-> NoHandle]
    /\ resp = [r \in Reqs |-> NoResp]

\* newrelic.NewApplication(...): it returns an application or an error.
NewApplication ==
    /\ mpc = "start"
    /\ \E err \in {"", "agent: invalid config"} :
        /\ initErr' = err
        /\ mpc' = IF err = "" THEN "gin" ELSE "failed"
    /\ UNCHANGED <<stdout, exitCode, router, agentVars, now, reqVars, asyncVars, resp>>

\* Variant: the error is printed and os.Exit(1) is missing, so main goes on.
ExitOnError_NoExit ==
    /\ mpc = "failed"
    /\ stdout' = Append(stdout, initErr)
    /\ mpc' = "gin"
    /\ UNCHANGED <<initErr, exitCode, router, agentVars, now, reqVars, asyncVars, resp>>

\* if nil != err { fmt.Println(err); os.Exit(1) }
ExitOnError ==
    /\ mpc = "failed"
    /\ stdout' = Append(stdout, initErr)
    /\ exitCode' = 1
    /\ mpc' = "exited"
    /\ UNCHANGED <<initErr, router, agentVars, now, reqVars, asyncVars, resp>>

\* router := gin.Default()
GinDefault ==
    /\ mpc = "gin"
    /\ router' = [router EXCEPT !.created = TRUE]
    /\ mpc' = "use"
    /\ UNCHANGED <<initErr, stdout, exitCode, agentVars, now, reqVars, asyncVars, resp>>

\* router.Use(nrgin.Middleware(app))
RouterUse ==
    /\ mpc = "use"
    /\ router' = [router EXCEPT !.middleware = Append(@, "nrgin")]
    /\ mpc' = "routes"
    /\ UNCHANGED <<initErr, stdout, exitCode, agentVars, now, reqVars, asyncVars, resp>>

\* Variant: the routes are registered before router.Use, so their chains
\* hold no middleware.
RegisteredRoutes_BeforeUse(mws) ==
    [p \in Paths |-> [mw |-> FALSE, handler |-> Routes[p]]]

\* router.GET(path, handler), fifteen times: a route's chain is the
\* middleware in use when it is registered, then its handler.
RegisteredRoutes(mws) ==
    [p \in Paths |-> [mw |-> mws # <<>>, handler |-> Routes[p]]]

RegisterRoutes ==
    /\ mpc = "routes"
    /\ router' = [router EXCEPT !.routes = RegisteredRoutes(router.middleware)]
    /\ mpc' = "run"
    /\ UNCHANGED <<initErr, stdout, exitCode, agentVars, now, reqVars, asyncVars, resp>>

\* router.Run(":8000")
RouterRun ==
    /\ mpc = "run"
    /\ router' = [router EXCEPT !.listening = TRUE]
    /\ mpc' = "serving"
    /\ UNCHANGED <<initErr, stdout, exitCode, agentVars, now, reqVars, asyncVars, resp>>

\* Time passes (time.Sleep, scheduling, network).
Tick ==
    /\ now < MaxTime
    /\ now' = now + 1
    /\ UNCHANGED <<mainVars, agentVars, reqVars, asyncVars, resp>>

----
\* One request: arrival, the middleware, the handler, the middleware's
\* deferred txn.End().

Logged(r, e) == [log EXCEPT ![r] = Append(@, e)]
Written(r, s) == [body EXCEPT ![r] = Append(@, s)]

\* An inbound GET for a registered route.
Arrive(r) ==
    /\ router.listening
    /\ pc[r] = "none"
    /\ \E p \in DOMAIN router.routes : route' = [route EXCEPT ![r] = p]
    /\ pc' = [pc EXCEPT ![r] = "mw"]
    /\ UNCHANGED <<mainVars, agentVars, now, attach, ginKey, reqCtx, txn, seg,
                   body, log, asyncVars, resp>>

\* The chain of the route runs: nrgin.Middleware(app) when the chain holds
\* it (it starts the request's transaction and binds it to the request),
\* then c.Next().
Middleware(r) ==
    /\ pc[r] = "mw"
    /\ IF router.routes[route[r]].mw
       THEN /\ nextTxn' = nextTxn + 1
            /\ ctx' = [t \in 1..(nextTxn + 1) |->
                          IF t = nextTxn + 1 THEN NewTxn ELSE ctx[t]]
            /\ ginKey' = [ginKey EXCEPT ![r] = nextTxn + 1]
            /\ reqCtx' = [reqCtx EXCEPT ![r] = nextTxn + 1]
            /\ attach' = [attach EXCEPT ![r] = @ + 1]
            /\ log' = Logged(r, "attach")
       ELSE UNCHANGED <<nextTxn, ctx, ginKey, reqCtx, attach, log>>
    /\ pc' = [pc EXCEPT ![r] = "handler"]
    /\ UNCHANGED <<mainVars, events, metrics, now, route, txn, seg, body,
                   asyncVars, resp>>

\* defer txn.End() of the middleware, after the handler has returned.
MiddlewareEnd(r) ==
    /\ pc[r] = "returned"
    /\ ctx' = TxnEnd(ctx, ginKey[r])
    /\ log' = Logged(r, "txn.End")
    /\ pc' = [pc EXCEPT ![r] = "done"]
    /\ UNCHANGED <<mainVars, nextTxn, events, metrics, now, route, attach,
                   ginKey, reqCtx, txn, seg, body, asyncVars, resp>>

\* Handler-side lookups.
\* nrgin.Transaction(c)
GinTransaction(r) == ginKey[r]
\* newrelic.FromContext(c.Request.Context())
FromContext(r) == reqCtx[r]

At(r, h) ==
    /\ pc[r] = "handler"
    /\ router.routes[route[r]].handler = h

\* What no handler step changes.
HFrame == UNCHANGED <<mainVars, nextTxn, now, route, attach, ginKey, reqCtx>>

\* A handler that is one straight line: its writes, then its return.
Finish(r, chunks) ==
    /\ body' = [body EXCEPT ![r] = @ \o chunks]
    /\ log' = [log EXCEPT ![r] = @ \o [i \in 1..Len(chunks) |-> "write"] \o <<"return">>]
    /\ pc' = [pc EXCEPT ![r] = "returned"]

EndpointAccessTransaction(r) ==
    /\ At(r, "EndpointAccessTransaction")
    /\ txn' = [txn EXCEPT ![r] = GinTransaction(r)]
    /\ ctx' = SetName(ctx, GinTransaction(r), "test-txn")
    /\ Finish(r, <<"test Transaction">>)
    /\ HFrame
    /\ UNCHANGED <<events, metrics, seg, asyncVars, resp>>

index(r) ==
    /\ At(r, "index")
    /\ Finish(r, <<"hello world">>)
    /\ HFrame
    /\ UNCHANGED <<ctx, events, metrics, txn, seg, asyncVars, resp>>

versionHandler(r) ==
    /\ At(r, "versionHandler")
    /\ Finish(r, <<"New Relic Go Agent Version: newrelic.Version">>)
    /\ HFrame
    /\ UNCHANGED <<ctx, events, metrics, txn, seg, asyncVars, resp>>

noticeError(r) ==
    /\ At(r, "noticeError")
    /\ txn' = [txn EXCEPT ![r] = FromContext(r)]
    /\ ctx' = NoticeError(ctx, FromContext(r), "my error message")
    /\ Finish(r, <<"noticing an error">>)
    /\ HFrame
    /\ UNCHANGED <<events, metrics, seg, asyncVars, resp>>

noticeErrorWithAttributes(r) ==
    /\ At(r, "noticeErrorWithAttributes")
    /\ txn' = [txn EXCEPT ![r] = FromContext(r)]
    /\ ctx' = NoticeError(ctx, FromContext(r), "something went very wrong")
    /\ Finish(r, <<"noticing an error">>)
    /\ HFrame
    /\ UNCHANGED <<events, metrics, seg, asyncVars, resp>>

customEvent(r) ==
    /\ At(r, "customEvent")
    /\ txn' = [txn EXCEPT ![r] = FromContext(r)]
    /\ events' = IF FromContext(r) # Absent
                 THEN Append(events, "my_event_type") ELSE events
    /\ Finish(r, <<"recording a custom event">>)
    /\ HFrame
    /\ UNCHANGED <<ctx, metrics, seg, asyncVars, resp>>

setName(r) ==
    /\ At(r, "setName")
    /\ txn' = [txn EXCEPT ![r] = FromContext(r)]
    /\ ctx' = SetName(ctx, FromContext(r), "other-name")
    /\ Finish(r, <<"changing the transaction's name">>)
    /\ HFrame
    /\ UNCHANGED <<events, metrics, seg, asyncVars, resp>>

addAttribute(r) ==
    /\ At(r, "addAttribute")
    /\ txn' = [txn EXCEPT ![r] = FromContext(r)]
    /\ ctx' = AddAttribute(AddAttribute(ctx, FromContext(r), "myString", "hello"),
                           FromContext(r), "myInt", 123)
    /\ Finish(r, <<"adding attributes">>)
    /\ HFrame
    /\ UNCHANGED <<events, metrics, seg, asyncVars, resp>>

\* Variant: the two branches of the coin are exchanged.
ignore_Inverted(r) ==
    /\ At(r, "ignore")
    /\ \E coinFlip \in BOOLEAN :
        IF coinFlip
        THEN /\ Finish(r, <<"ignoring the transaction">>)
             /\ UNCHANGED <<txn, ctx>>
        ELSE /\ txn' = [txn EXCEPT ![r] = FromContext(r)]
             /\ ctx' = Ignore(ctx, FromContext(r))
             /\ Finish(r, <<"not ignoring the transaction">>)
    /\ HFrame
    /\ UNCHANGED <<events, metrics, seg, asyncVars, resp>>

\* rand.Intn(2) is the coin.
ignore(r) ==
    /\ At(r, "ignore")
    /\ \E coinFlip \in BOOLEAN :
        IF coinFlip
        THEN /\ txn' = [txn EXCEPT ![r] = FromContext(r)]
             /\ ctx' = Ignore(ctx, FromContext(r))
             /\ Finish(r, <<"ignoring the transaction">>)
        ELSE /\ Finish(r, <<"not ignoring the transaction">>)
             /\ UNCHANGED <<txn, ctx>>
    /\ HFrame
    /\ UNCHANGED <<events, metrics, seg, asyncVars, resp>>

\* One metric per header value of the request.
customMetric(r) ==
    /\ At(r, "customMetric")
    /\ txn' = [txn EXCEPT ![r] = FromContext(r)]
    /\ \E n \in 0..MaxHdr :
        metrics' = IF FromContext(r) # Absent
                   THEN metrics \o [i \in 1..n |-> "HeaderLength"] ELSE metrics
    /\ Finish(r, <<"custom metric recorded">>)
    /\ HFrame
    /\ UNCHANGED <<ctx, events, seg, asyncVars, resp>>

\* hdr.WithTags() is nil when there is no transaction or browser
\* monitoring is off, else the script.
browser(r) ==
    /\ At(r, "browser")
    /\ txn' = [txn EXCEPT ![r] = FromContext(r)]
    /\ \E js \in (IF FromContext(r) = Absent THEN {<<>>}
                  ELSE {<<>>, <<"<script>browser timing</script>">>}) :
        Finish(r, js \o <<"browser header page">>)
    /\ HFrame
    /\ UNCHANGED <<ctx, events, metrics, seg, asyncVars, resp>>

----
\* segments

\* txn := ...; defer newrelic.StartSegment(txn, "f1").End()
segments_StartF1(r) ==
    /\ At(r, "segments")
    /\ txn' = [txn EXCEPT ![r] = FromContext(r)]
    /\ ctx' = StartSegment(ctx, FromContext(r), "f1")
    /\ seg' = [seg EXCEPT ![r] = <<SegHandle(ctx, FromContext(r))>>]
    /\ log' = Logged(r, "begin:f1")
    /\ pc' = [pc EXCEPT ![r] = "segments.f1"]
    /\ HFrame
    /\ UNCHANGED <<events, metrics, body, asyncVars, resp>>

\* defer newrelic.StartSegment(txn, "f2").End()
segments_StartF2(r) ==
    /\ pc[r] = "segments.f1"
    /\ ctx' = StartSegment(ctx, txn[r], "f2")
    /\ seg' = [seg EXCEPT ![r] = Append(@, SegHandle(ctx, txn[r]))]
    /\ log' = Logged(r, "begin:f2")
    /\ pc' = [pc EXCEPT ![r] = "segments.f2"]
    /\ HFrame
    /\ UNCHANGED <<events, metrics, txn, body, asyncVars, resp>>

\* io.WriteString(c.Writer, "segments!")
segments_Write(r) ==
    /\ pc[r] = "segments.f2"
    /\ body' = Written(r, "segments!")
    /\ log' = Logged(r, "write")
    /\ pc' = [pc EXCEPT ![r] = "segments.written"]
    /\ HFrame
    /\ UNCHANGED <<agentVars, txn, seg, asyncVars, resp>>

\* Variant: the inner function ends the handle of f1.
segments_EndF2_WrongHandle(r) ==
    /\ pc[r] = "segments.written"
    /\ ctx' = SegmentEnd(ctx, seg[r][1])
    /\ log' = Logged(r, "end:f1")
    /\ pc' = [pc EXCEPT ![r] = "segments.f2.ended"]
    /\ HFrame
    /\ UNCHANGED <<events, metrics, txn, seg, body, asyncVars, resp>>

\* the inner function returns: the deferred End of f2
segments_EndF2(r) ==
    /\ pc[r] = "segments.written"
    /\ ctx' = SegmentEnd(ctx, seg[r][2])
    /\ log' = Logged(r, "end:f2")
    /\ pc' = [pc EXCEPT ![r] = "segments.f2.ended"]
    /\ HFrame
    /\ UNCHANGED <<events, metrics, txn, seg, body, asyncVars, resp>>

\* the outer function returns: the deferred End of f1
segments_EndF1(r) ==
    /\ pc[r] = "segments.f2.ended"
    /\ ctx' = SegmentEnd(ctx, seg[r][1])
    /\ log' = Logged(r, "end:f1")
    /\ pc' = [pc EXCEPT ![r] = "return"]
    /\ HFrame
    /\ UNCHANGED <<events, metrics, txn, seg, body, asyncVars, resp>>

\* The end of a handler of several steps.
Return(r) ==
    /\ pc[r] = "return"
    /\ log' = Logged(r, "return")
    /\ pc' = [pc EXCEPT ![r] = "returned"]
    /\ HFrame
    /\ UNCHANGED <<agentVars, txn, seg, body, asyncVars, resp>>

----
\* message

\* txn := ...; s := newrelic.MessageProducerSegment{StartTime:
\* newrelic.StartSegmentNow(txn), ...}; defer s.End()
message_Start(r) ==
    /\ At(r, "message")
    /\ txn' = [txn EXCEPT ![r] = FromContext(r)]
    /\ ctx' = StartSegment(ctx, FromContext(r), "MessageProducer")
    /\ seg' = [seg EXCEPT ![r] = <<SegHandle(ctx, FromContext(r))>>]
    /\ log' = Logged(r, "begin:MessageProducer")
    /\ pc' = [pc EXCEPT ![r] = "message.started"]
    /\ HFrame
    /\ UNCHANGED <<events, metrics, body, asyncVars, resp>>

\* io.WriteString(c.Writer, `producing a message queue message`)
message_Write(r) ==
    /\ pc[r] = "message.started"
    /\ body' = Written(r, "producing a message queue message")
    /\ log' = Logged(r, "write")
    /\ pc' = [pc EXCEPT ![r] = "message.written"]
    /\ HFrame
    /\ UNCHANGED <<agentVars, txn, seg, asyncVars, resp>>

\* the handler returns: the deferred s.End()
message_End(r) ==
    /\ pc[r] = "message.written"
    /\ ctx' = SegmentEnd(ctx, seg[r][1])
    /\ log' = Logged(r, "end:MessageProducer")
    /\ pc' = [pc EXCEPT ![r] = "return"]
    /\ HFrame
    /\ UNCHANGED <<events, metrics, txn, seg, body, asyncVars, resp>>

----
\* external

\* txn := ...; req, _ := http.NewRequest(...);
\* es := newrelic.StartExternalSegment(txn, req)
external_Start(r) ==
    /\ At(r, "external")
    /\ txn' = [txn EXCEPT ![r] = FromContext(r)]
    /\ ctx' = StartSegment(ctx, FromContext(r), "External")
    /\ seg' = [seg EXCEPT ![r] = <<SegHandle(ctx, FromContext(r))>>]
    /\ log' = Logged(r, "begin:External")
    /\ pc' = [pc EXCEPT ![r] = "external.started"]
    /\ HFrame
    /\ UNCHANGED <<events, metrics, body, asyncVars, resp>>

\* resp, err := http.DefaultClient.Do(req): the network decides.
external_Do(r) ==
    /\ pc[r] = "external.started"
    /\ \/ \E e \in OutboundErrors :
            resp' = [resp EXCEPT ![r] = [NoResp EXCEPT !.kind = "err", !.err = e]]
       \/ \E b \in UpstreamBodies :
            resp' = [resp EXCEPT ![r] = [NoResp EXCEPT !.kind = "ok", !.upstream = b]]
    /\ log' = Logged(r, "Do")
    /\ pc' = [pc EXCEPT ![r] = "external.called"]
    /\ HFrame
    /\ UNCHANGED <<agentVars, txn, seg, body, asyncVars>>

\* Variant: es.End() is placed after the error check, so the error path
\* returns without it.
external_End_AfterErrCheck(r) ==
    /\ pc[r] = "external.called"
    /\ IF resp[r].kind = "err"
       THEN UNCHANGED <<ctx, log>>
       ELSE /\ ctx' = SegmentEnd(ctx, seg[r][1])
            /\ log' = Logged(r, "end:External")
    /\ pc' = [pc EXCEPT ![r] = "external.ended"]
    /\ HFrame
    /\ UNCHANGED <<events, metrics, txn, seg, body, asyncVars, resp>>

\* es.End()
external_End(r) ==
    /\ pc[r] = "external.called"
    /\ ctx' = SegmentEnd(ctx, seg[r][1])
    /\ log' = Logged(r, "end:External")
    /\ pc' = [pc EXCEPT ![r] = "external.ended"]
    /\ HFrame
    /\ UNCHANGED <<events, metrics, txn, seg, body, asyncVars, resp>>

\* if err != nil { io.WriteString(c.Writer, err.Error()); return }
external_Err(r) ==
    /\ pc[r] = "external.ended"
    /\ resp[r].kind = "err"
    /\ body' = Written(r, resp[r].err)
    /\ log' = Logged(r, "write")
    /\ pc' = [pc EXCEPT ![r] = "return"]
    /\ HFrame
    /\ UNCHANGED <<agentVars, txn, seg, asyncVars, resp>>

\* defer resp.Body.Close(); io.Copy(c.Writer, resp.Body): the upstream body
\* is what resp.Body yields until it ends.
external_Copy(r) ==
    /\ pc[r] = "external.ended"
    /\ resp[r].kind = "ok"
    /\ body' = [body EXCEPT ![r] = @ \o resp[r].upstream]
    /\ resp' = [resp EXCEPT ![r].read = TRUE]
    /\ log' = Logged(r, "copy")
    /\ pc' = [pc EXCEPT ![r] = "external.copied"]
    /\ HFrame
    /\ UNCHANGED <<agentVars, txn, seg, asyncVars>>

\* Variant: defer resp.Body.Close() is missing.
external_Close_Missing(r) ==
    /\ pc[r] = "external.copied"
    /\ pc' = [pc EXCEPT ![r] = "return"]
    /\ HFrame
    /\ UNCHANGED <<agentVars, txn, seg, body, log, asyncVars, resp>>

\* the handler returns: the deferred resp.Body.Close()
external_Close(r) ==
    /\ pc[r] = "external.copied"
    /\ resp' = [resp EXCEPT ![r].closed = TRUE]
    /\ log' = Logged(r, "close:Body")
    /\ pc' = [pc EXCEPT ![r] = "return"]
    /\ HFrame
    /\ UNCHANGED <<agentVars, txn, seg, body, asyncVars>>

----
\* async

\* Variant: the goroutine is started without the handler's txn.
GoArg_Detached(r, t) == Absent

\* The argument of the go statement: the handler's own txn.
GoArg(r, t) == t

\* txn := ...; wg := &sync.WaitGroup{}; wg.Add(1); go func(txn){...}(txn)
async_Go(r) ==
    /\ At(r, "async")
    /\ txn' = [txn EXCEPT ![r] = FromContext(r)]
    /\ wg' = [wg EXCEPT ![r] = @ + 1]
    /\ gtxn' = [gtxn EXCEPT ![r] = GoArg(r, FromContext(r))]
    /\ gpc' = [gpc EXCEPT ![r] = "spawned"]
    /\ log' = Logged(r, "go")
    /\ pc' = [pc EXCEPT ![r] = "async.spawned"]
    /\ HFrame
    /\ UNCHANGED <<agentVars, seg, body, gseg, resp>>

\* segment := newrelic.StartSegment(txn, "wg.Wait")
async_StartWait(r) ==
    /\ pc[r] = "async.spawned"
    /\ ctx' = StartSegment(ctx, txn[r], "wg.Wait")
    /\ seg' = [seg EXCEPT ![r] = <<SegHandle(ctx, txn[r])>>]
    /\ log' = Logged(r, "begin:wg.Wait")
    /\ pc' = [pc EXCEPT ![r] = "async.waiting"]
    /\ HFrame
    /\ UNCHANGED <<events, metrics, txn, body, asyncVars, resp>>

\* Variant: the handler does not wait for the counter.
async_Wait_NoJoin(r) ==
    /\ pc[r] = "async.waiting"
    /\ log' = Logged(r, "wg.Wait")
    /\ pc' = [pc EXCEPT ![r] = "async.joined"]
    /\ HFrame
    /\ UNCHANGED <<agentVars, txn, seg, body, asyncVars, resp>>

\* wg.Wait(): it returns when the counter is zero.
async_Wait(r) ==
    /\ pc[r] = "async.waiting"
    /\ wg[r] = 0
    /\ log' = Logged(r, "wg.Wait")
    /\ pc' = [pc EXCEPT ![r] = "async.joined"]
    /\ HFrame
    /\ UNCHANGED <<agentVars, txn, seg, body, asyncVars, resp>>

\* segment.End()
async_EndWait(r) ==
    /\ pc[r] = "async.joined"
    /\ ctx' = SegmentEnd(ctx, seg[r][1])
    /\ log' = Logged(r, "end:wg.Wait")
    /\ pc' = [pc EXCEPT ![r] = "async.ended"]
    /\ HFrame
    /\ UNCHANGED <<events, metrics, txn, seg, body, asyncVars, resp>>

\* c.Writer.Write([]byte("done!"))
async_Write(r) ==
    /\ pc[r] = "async.ended"
    /\ body' = Written(r, "done!")
    /\ log' = Logged(r, "write")
    /\ pc' = [pc EXCEPT ![r] = "return"]
    /\ HFrame
    /\ UNCHANGED <<agentVars, txn, seg, asyncVars, resp>>

\* The goroutine: defer wg.Done(); defer newrelic.StartSegment(txn, "async").End()
go_Start(r) ==
    /\ gpc[r] = "spawned"
    /\ ctx' = StartSegment(ctx, gtxn[r], "async")
    /\ gseg' = [gseg EXCEPT ![r] = SegHandle(ctx, gtxn[r])]
    /\ log' = Logged(r, "begin:async")
    /\ gpc' = [gpc EXCEPT ![r] = "running"]
    /\ HFrame
    /\ UNCHANGED <<events, metrics, pc, txn, seg, body, wg, gtxn, resp>>

\* time.Sleep(100ms); the function returns: the deferred End of "async"
go_End(r) ==
    /\ gpc[r] = "running"
    /\ ctx' = SegmentEnd(ctx, gseg[r])
    /\ log' = Logged(r, "end:async")
    /\ gpc' = [gpc EXCEPT ![r] = "ended"]
    /\ HFrame
    /\ UNCHANGED <<events, metrics, pc, txn, seg, body, wg, gtxn, gseg, resp>>

\* the deferred wg.Done()
go_Done(r) ==
    /\ gpc[r] = "ended"
    /\ wg' = [wg EXCEPT ![r] = @ - 1]
    /\ log' = Logged(r, "wg.Done")
    /\ gpc' = [gpc EXCEPT ![r] = "finished"]
    /\ HFrame
    /\ UNCHANGED <<agentVars, pc, txn, seg, body, gtxn, gseg, resp>>

----
HandlerStep(r) ==
    \/ EndpointAccessTransaction(r) \/ index(r) \/ versionHandler(r)
    \/ noticeError(r) \/ noticeErrorWithAttributes(r) \/ customEvent(r)
    \/ setName(r) \/ addAttribute(r) \/ ignore(r) \/ customMetric(r)
    \/ browser(r)
    \/ segments_StartF1(r) \/ segments_StartF2(r) \/ segments_Write(r)
    \/ segments_EndF2(r) \/ segments_EndF1(r)
    \/ message_Start(r) \/ message_Write(r) \/ message_End(r)
    \/ external_Start(r) \/ external_Do(r) \/ external_End(r)
    \/ external_Err(r) \/ external_Copy(r) \/ external_Close(r)
    \/ async_Go(r) \/ async_StartWait(r) \/ async_Wait(r)
    \/ async_EndWait(r) \/ async_Write(r)
    \/ Return(r)

\* Variant: the two defers of the goroutine are written in the other order,
\* so wg.Done() runs before the End of "async".
GoStep_DoneFirst(r) ==
    \/ go_Start(r)
    \/ /\ gpc[r] = "running"
       /\ wg' = [wg EXCEPT ![r] = @ - 1]
       /\ log' = Logged(r, "wg.Done")
       /\ gpc' = [gpc EXCEPT ![r] = "ended"]
       /\ HFrame
       /\ UNCHANGED <<agentVars, pc, txn, seg, body, gtxn, gseg, resp>>
    \/ /\ gpc[r] = "ended"
       /\ ctx' = SegmentEnd(ctx, gseg[r])
       /\ log' = Logged(r, "end:async")
       /\ gpc' = [gpc EXCEPT ![r] = "finished"]
       /\ HFrame
       /\ UNCHANGED <<events, metrics, pc, txn, seg, body, wg, gtxn, gseg, resp>>

\* The body of the goroutine of async.
GoStep(r) == go_Start(r) \/ go_End(r) \/ go_Done(r)

RequestStep(r) ==
    Arrive(r) \/ Middleware(r) \/ HandlerStep(r) \/ MiddlewareEnd(r)

MainStep ==
    \/ NewApplication \/ ExitOnError \/ GinDefault \/ RouterUse
    \/ RegisterRoutes \/ RouterRun

\* A step of the process.
ProgramStep ==
    \/ MainStep
    \/ \E r \in Reqs : RequestStep(r) \/ GoStep(r)

Next == ProgramStep \/ Tick

Spec == Init /\ [][Next]_vars

\* The scheduler runs every runnable task: the request's own task and the
\* goroutine it spawned.
FairSpec ==
    Spec /\ \A r \in Reqs : WF_vars(HandlerStep(r)) /\ WF_vars(GoStep(r))

----
\* Properties.

Returned(r) == pc[r] \in {"returned", "done"}
OnRoute(r, h) == route[r] \in Paths /\ Routes[route[r]] = h
Pos(s, e) ==
    IF \E i \in DOMAIN s : s[i] = e
    THEN CHOOSE i \in DOMAIN s : s[i] = e /\ \A j \in 1..(i - 1) : s[j] # e
    ELSE 0
Count(s, e) == Cardinality({i \in DOMAIN s : s[i] = e})
\* e1 happened, and before e2.
Before(s, e1, e2) == Pos(s, e1) > 0 /\ Pos(s, e1) < Pos(s, e2)
\* The segments of the Context the middleware bound to request r.
SegsOf(r) == IF ginKey[r] = Absent THEN <<>> ELSE ctx[ginKey[r]].segs
Names(ss) == [i \in DOMAIN ss |-> ss[i].name]

\* C1: once the segments handler has returned, the request's Context holds
\* exactly the segments f1 and f2, each closed exactly once, f1 opened
\* before f2, f2 closed before f1, and both closed before the return.
C1_SegmentsNested ==
    \A r \in Reqs :
        (OnRoute(r, "segments") /\ Returned(r)) =>
            /\ Names(SegsOf(r)) = <<"f1", "f2">>
            /\ \A i \in 1..2 : SegsOf(r)[i].closes = 1
            /\ Count(log[r], "begin:f1") = 1 /\ Count(log[r], "end:f1") = 1
            /\ Count(log[r], "begin:f2") = 1 /\ Count(log[r], "end:f2") = 1
            /\ Before(log[r], "begin:f1", "begin:f2")
            /\ Before(log[r], "begin:f2", "end:f2")
            /\ Before(log[r], "end:f2", "end:f1")
            /\ Before(log[r], "end:f1", "return")
            /\ SegsOf(r)[1].start <= SegsOf(r)[2].start
            /\ SegsOf(r)[2].end <= SegsOf(r)[1].end

C1_Witness ==
    \E r \in Reqs :
        /\ OnRoute(r, "segments") /\ pc[r] = "done"
        /\ Len(SegsOf(r)) = 2
        /\ \A i \in 1..2 : SegsOf(r)[i].closes = 1
        /\ SegsOf(r)[1].start < SegsOf(r)[2].start
        /\ body[r] = <<"segments!">>

Retrieves(h) == h \notin {"index", "versionHandler", "ignore"}
Started(r) == pc[r] \notin {"none", "mw", "handler"}

C5_Original ==
    \A r \in Reqs : pc[r] = "async.waiting" => ENABLED async_Wait(r)

\* C5, amended: the async handler is blocked in wg.Wait for as long as the
\* goroutine has not called wg.Done, and "done!" is written only after the
\* goroutine has finished.
C5_AsyncBlocksOnGoroutine ==
    \A r \in Reqs :
        /\ (pc[r] = "async.waiting" /\ gpc[r] # "finished") =>
                ~ENABLED HandlerStep(r)
        /\ (pc[r] = "async.waiting" /\ gpc[r] = "finished") =>
                ENABLED async_Wait(r)
        /\ (OnRoute(r, "async") /\ body[r] # <<>>) => gpc[r] = "finished"

C5_Witness ==
    \E r \in Reqs :
        pc[r] = "async.waiting" /\ gpc[r] = "spawned" /\ now = MaxTime

\* C6: when newrelic.NewApplication fails, main prints the error and exits
\* with status 1, and no router, middleware, route, listener or request
\* exists in that run.
C6_InitFailureIsFatal ==
    /\ initErr # "" =>
        /\ router = NoRouter
        /\ \A r \in Reqs : pc[r] = "none"
        /\ nextTxn = 0
        /\ mpc \in {"failed", "exited"}
    /\ mpc = "failed" => ENABLED ExitOnError /\ exitCode = -1
    /\ mpc = "exited" =>
        /\ initErr # "" /\ stdout = <<initErr>> /\ exitCode = 1
        /\ ~ENABLED ProgramStep
    /\ exitCode # -1 => mpc = "exited"
    /\ (router.created \/ \E r \in Reqs : pc[r] # "none") =>
        initErr = "" /\ exitCode = -1 /\ stdout = <<>>

C6_Witness == mpc = "exited" /\ exitCode = 1 /\ router = NoRouter

Opens(h) ==
    CASE h = "segments" -> {"f1", "f2"}
      [] h = "message" -> {"MessageProducer"}
      [] h = "external" -> {"External"}
      [] h = "async" -> {"async", "wg.Wait"}
      [] OTHER -> {}

\* C8: in segments, message, external and async every segment opened is
\* closed exactly once before the handler returns, on every path, never
\* twice, and its end time is at least its start time.
C8_SegmentsClosedOnce ==
    /\ \A t \in DOMAIN ctx : \A i \in DOMAIN ctx[t].segs :
        LET s == ctx[t].segs[i] IN
        /\ s.closes <= 1
        /\ s.closes = 0 => s.end = -1 /\ ~ctx[t].ended
        /\ s.closes = 1 => s.end >= s.start /\ s.start >= 0
    /\ \A r \in Reqs :
        /\ \A n \in Opens("segments") \cup Opens("message")
                    \cup Opens("external") \cup Opens("async") :
                /\ Count(log[r], "end:" \o n) <= Count(log[r], "begin:" \o n)
                /\ Count(log[r], "begin:" \o n) <= 1
        /\ Returned(r) =>
            /\ Len(SegsOf(r)) = Cardinality(Opens(Routes[route[r]]))
            /\ \A i \in DOMAIN SegsOf(r) :
                /\ SegsOf(r)[i].closes = 1
                /\ SegsOf(r)[i].name \in Opens(Routes[route[r]])
            /\ \A n \in Opens(Routes[route[r]]) :
                /\ Count(log[r], "begin:" \o n) = 1
                /\ Count(log[r], "end:" \o n) = 1
                /\ Before(log[r], "end:" \o n, "return")

\* The error path of external, with time passing while the call is out.
C8_Witness ==
    \E r \in Reqs :
        /\ OnRoute(r, "external") /\ Returned(r) /\ resp[r].kind = "err"
        /\ Len(SegsOf(r)) = 1 /\ SegsOf(r)[1].closes = 1
        /\ SegsOf(r)[1].end > SegsOf(r)[1].start

\* The order of the events of async, as far as they have happened.
AsyncOrder(r) ==
    /\ Pos(log[r], "wg.Done") > 0 => Before(log[r], "end:async", "wg.Done")
    /\ Pos(log[r], "wg.Wait") > 0 => Before(log[r], "wg.Done", "wg.Wait")
    /\ Pos(log[r], "end:wg.Wait") > 0 =>
            Before(log[r], "wg.Wait", "end:wg.Wait")
    /\ Pos(log[r], "write") > 0 => Before(log[r], "end:wg.Wait", "write")
    /\ body[r] # <<>> =>
            /\ body[r] = <<"done!">>
            /\ gseg[r].txn # Absent
            /\ ctx[gseg[r].txn].segs[gseg[r].idx].closes = 1

\* C9: in async, under every interleaving, the "async" segment is closed
\* before wg.Done, wg.Wait returns after wg.Done, then "wg.Wait" is closed,
\* then "done!" is written; the response is never written while "async" is
\* open; and under fair scheduling the handler eventually writes "done!".
C9_AsyncJoinOrder ==
    /\ [](\A r \in Reqs : OnRoute(r, "async") => AsyncOrder(r))
    /\ \A r \in Reqs :
        (OnRoute(r, "async") /\ pc[r] = "handler") ~> (body[r] = <<"done!">>)

C9_Witness ==
    \E r \in Reqs :
        /\ OnRoute(r, "async") /\ pc[r] = "done"
        /\ log[r] = <<"attach", "go", "begin:wg.Wait", "begin:async",
                      "end:async", "wg.Done", "wg.Wait", "end:wg.Wait",
                      "write", "return", "txn.End">>

\* C10: in external the segment is ended right after the outbound call
\* returns and before anything is written; after a failed call the body is
\* the error's text and no upstream body is read or closed; after a
\* successful call the body is the upstream body, which is closed before
\* the handler returns; the handler returns on both outcomes.
C10_ExternalOutcomes ==
    \A r \in Reqs : OnRoute(r, "external") =>
        /\ (Pos(log[r], "Do") > 0 /\ Len(log[r]) > Pos(log[r], "Do")) =>
                log[r][Pos(log[r], "Do") + 1] = "end:External"
        /\ (body[r] # <<>> \/ resp[r].read \/ resp[r].closed
                \/ Pos(log[r], "write") > 0 \/ Pos(log[r], "copy") > 0) =>
                /\ Pos(log[r], "end:External") > 0
                /\ SegsOf(r)[1].closes = 1
        /\ Pos(log[r], "write") > 0 =>
                Before(log[r], "end:External", "write")
        /\ Pos(log[r], "copy") > 0 =>
                Before(log[r], "end:External", "copy")
        /\ resp[r].kind = "err" =>
                /\ ~resp[r].read /\ ~resp[r].closed
                /\ body[r] \in {<<>>, <<resp[r].err>>}
                /\ pc[r] = "external.ended" => ENABLED external_Err(r)
        /\ Returned(r) =>
                /\ resp[r].kind \in {"err", "ok"}
                /\ resp[r].kind = "err" => body[r] = <<resp[r].err>>
                /\ resp[r].kind = "ok" =>
                    /\ body[r] = resp[r].upstream
                    /\ resp[r].read /\ resp[r].closed
                    /\ Before(log[r], "copy", "close:Body")
                    /\ Before(log[r], "close:Body", "return")

C10_Witness ==
    \E r, q \in Reqs :
        /\ OnRoute(r, "external") /\ pc[r] = "done" /\ resp[r].kind = "err"
        /\ body[r] # <<>>
        /\ OnRoute(q, "external") /\ pc[q] = "done" /\ resp[q].kind = "ok"
        /\ body[q] # <<>>

====
